---- MODULE Spec2Model ----
(***************************************************************************)
(* The three sync jobs of ShowsReorg (tvfiles_db.py, tvfiles_plex.py,      *)
(* tvfiles_sonarr.py) as one state machine.  Each job owns its own tables; *)
(* `job' says which script is being run against the database.  `disk' is   *)
(* the committed content of the SQLite file, `db' is what the job's        *)
(* connection sees (committed content plus its open transaction).          *)
(***************************************************************************)
EXTENDS Integers, Sequences, FiniteSets, TLC

\* ------------------------------------------------------------------ bounds
\* number of runs of a script that the model follows
MaxPasses == 3
\* number of source records (shows, videos, parts, ...) one pass may stream
MaxObs == 3
\* number of passes each of two concurrent processes may run
MaxRuns == 2
\* number of files one pass of a concurrent process may observe
MaxParts == 2

\* SQL NULL / Python None; row ids and timestamps start at 1
NULL == 0

\* ---------------------------------------------------------- source domains
ShowKeys == {"/show/1", "/show/2"}
Titles == {"T1", "T2"}
\* raw file paths as component sequences, as the catalog reports them
RawPaths == { <<"tv", "a">>, <<"tv", "s", "..", "a">>, <<"tv", "s", "a">> }

VARIABLES job, disk, db, clock, passes, pc, now,
          seen_files, total_files, series_db_id, episode_db_id,
          episode_by_id, resolved_episodes, unresolved_files,
          obs, replay, pos,
          fsys, unreadable, args, todo, total_inserted, removed, existing, before,
          conns

vars == <<job, disk, db, clock, passes, pc, now,
          seen_files, total_files, series_db_id, episode_db_id,
          episode_by_id, resolved_episodes, unresolved_files,
          obs, replay, pos,
          fsys, unreadable, args, todo, total_inserted, removed, existing, before,
          conns>>

\* the loop variables and counters of a pass
locals == <<seen_files, total_files, series_db_id, episode_db_id,
            episode_by_id, resolved_episodes, unresolved_files>>

\* the filesystem job's environment, arguments and loop variables
fsvars == <<fsys, unreadable, args, todo, total_inserted, removed, existing>>

\* ------------------------------------------------------------ pure helpers

\* Path.resolve() on an absolute path: "." is dropped, ".." pops a component
RECURSIVE Normalize(_, _)
Normalize(parts, acc) ==
    IF parts = <<>> THEN acc
    ELSE IF Head(parts) = "." THEN Normalize(Tail(parts), acc)
    ELSE IF Head(parts) = ".."
         THEN Normalize(Tail(parts),
                        IF acc = <<>> THEN acc ELSE SubSeq(acc, 1, Len(acc) - 1))
    ELSE Normalize(Tail(parts), Append(acc, Head(parts)))

Resolve(p) == Normalize(p, <<>>)

\* full_path.parent and full_path.name
Parent(p) == SubSeq(p, 1, Len(p) - 1)
Name(p) == p[Len(p)]

\* INTEGER PRIMARY KEY: the next rowid is one more than the largest in use
MaxId(rows) == IF rows = {} THEN 0
               ELSE CHOOSE m \in {r.id : r \in rows} : \A r \in rows : r.id <= m
NextId(rows) == MaxId(rows) + 1

\* INTEGER PRIMARY KEY AUTOINCREMENT: the rowid an INSERT takes is one more
\* than the largest ever handed out; an INSERT OR IGNORE that is ignored has
\* taken one all the same
AutoId(rows, seq) == (IF MaxId(rows) > seq THEN MaxId(rows) ELSE seq) + 1

\* the tables of the three scripts
Tables == { "scans", "scan_dirs", "files",
            "plex_series", "plex_episodes", "plex_files",
            "sonarr_series", "sonarr_episodes", "sonarr_files" }

\* a new database file: every table empty, and sqlite_sequence, which holds
\* for each AUTOINCREMENT table (those of tvfiles_db.py) the largest rowid
\* ever handed out
EmptyDb == [ scans |-> {}, scan_dirs |-> {}, files |-> {},
             plex_series |-> {}, plex_episodes |-> {}, plex_files |-> {},
             sonarr_series |-> {}, sonarr_episodes |-> {}, sonarr_files |-> {},
             sqlite_sequence |-> [scans |-> 0, scan_dirs |-> 0, files |-> 0] ]

\* ------------------------------------------------------- the replay device
\* A pass either streams fresh records from its source (and logs them in
\* obs) or reads back, in order, the records of the pass that just finished
\* (the source did not change between the two runs).
Candidates(kind, alphabet) ==
    IF replay
    THEN IF pos <= Len(obs) /\ obs[pos].kind = kind THEN {obs[pos]} ELSE {}
    ELSE IF Len(obs) < MaxObs THEN alphabet ELSE {}

Consume(e) ==
    IF replay THEN pos' = pos + 1 /\ obs' = obs
    ELSE obs' = Append(obs, e) /\ pos' = pos

StreamEnded == replay => pos > Len(obs)

\* --------------------------------------------------------------- plex job

\* what the catalog may report: /show/1 is seen under two titles
PlexShowRecords ==
    { e \in [kind : {"show"}, key : ShowKeys, title : Titles] :
        e.key = "/show/2" => e.title = "T1" }
PlexVideoRecords ==
    { [kind |-> "video", key |-> "/ep/1", season |-> 1, index |-> 1],
      [kind |-> "video", key |-> "/ep/2", season |-> 1, index |-> 2] }
PlexPartRecords == [kind : {"part"}, file : RawPaths]

PlexFileKey(r) == <<r.filename, r.filepath>>

\* INSERT OR IGNORE INTO plex_series (plex_key, title)
InsertOrIgnorePlexSeries(rows, key, title) ==
    IF \E r \in rows : r.plex_key = key THEN rows
    ELSE rows \cup {[id |-> NextId(rows), plex_key |-> key, title |-> title]}

\* mutant: the id is guessed as the next rowid instead of being read back
SelectIdByPlexKeyGuessed(rows, key) == NextId(rows)

\* SELECT id FROM plex_series / plex_episodes WHERE plex_key = ?
SelectIdByPlexKey(rows, key) ==
    (CHOOSE r \in rows : r.plex_key = key).id

\* INSERT OR IGNORE INTO plex_episodes (plex_key, series_id, season_number, episode_number)
InsertOrIgnorePlexEpisode(rows, key, sid, season, index) ==
    IF \E r \in rows : r.plex_key = key THEN rows
    ELSE rows \cup {[id |-> NextId(rows), plex_key |-> key, series_id |-> sid,
                     season_number |-> season, episode_number |-> index]}

\* mutant: a plain INSERT on a table without UNIQUE(filename, filepath)
InsertPlexFile(rows, filename, filepath, sid, eid, ts) ==
    rows \cup {[id |-> NextId(rows), filename |-> filename, filepath |-> filepath,
                series_id |-> sid, episode_id |-> eid,
                added_date |-> ts, removed_date |-> NULL]}

\* INSERT OR IGNORE INTO plex_files (..., added_date, removed_date = NULL)
InsertOrIgnorePlexFile(rows, filename, filepath, sid, eid, ts) ==
    IF \E r \in rows : r.filename = filename /\ r.filepath = filepath THEN rows
    ELSE rows \cup {[id |-> NextId(rows), filename |-> filename, filepath |-> filepath,
                     series_id |-> sid, episode_id |-> eid,
                     added_date |-> ts, removed_date |-> NULL]}

\* mutant: the UPDATE that clears removed_date is missing
KeepRemovedPlexFile(rows, filename, filepath) == rows

\* UPDATE plex_files SET removed_date = NULL WHERE filename = ? AND filepath = ?
ClearRemovedPlexFile(rows, filename, filepath) ==
    { IF r.filename = filename /\ r.filepath = filepath
      THEN [r EXCEPT !.removed_date = NULL] ELSE r : r \in rows }

\* mutant: the SELECT lacks WHERE removed_date IS NULL
RestampRemovedPlexFiles(rows, seen, ts) ==
    { IF PlexFileKey(r) \notin seen
      THEN [r EXCEPT !.removed_date = ts] ELSE r : r \in rows }

\* the "removed files" loop: every active row whose key was not seen this pass
MarkRemovedPlexFiles(rows, seen, ts) ==
    { IF r.removed_date = NULL /\ PlexFileKey(r) \notin seen
      THEN [r EXCEPT !.removed_date = ts] ELSE r : r \in rows }

\* a pass begins: now = utc_now(), empty seen set, zeroed counters
BeginPass ==
    /\ passes < MaxPasses
    /\ passes' = passes + 1
    /\ clock' = clock + 1
    /\ now' = clock + 1
    /\ pc' = "stream"
    /\ before' = disk
    /\ seen_files' = {} /\ total_files' = 0
    /\ series_db_id' = NULL /\ episode_db_id' = NULL
    /\ episode_by_id' = {} /\ resolved_episodes' = 0 /\ unresolved_files' = 0

\* main() of tvfiles_plex.py starts; sync_plex takes `now' and fetches the
\* library sections
PlexStart ==
    /\ job = "plex" /\ pc = "idle"
    /\ BeginPass
    /\ obs' = <<>> /\ replay' = FALSE /\ pos' = 1
    /\ UNCHANGED <<job, conns, disk, db, fsvars>>

\* one <Directory> of a section: the series row is inserted or found
PlexShow ==
    /\ job = "plex" /\ pc = "stream"
    /\ \E e \in Candidates("show", PlexShowRecords) :
         LET rows == InsertOrIgnorePlexSeries(db.plex_series, e.key, e.title) IN
         /\ db' = [db EXCEPT !.plex_series = rows]
         /\ series_db_id' = SelectIdByPlexKey(rows, e.key)
         /\ episode_db_id' = NULL
         /\ Consume(e)
    /\ UNCHANGED <<fsvars, before, job, conns, disk, clock, passes, pc, now, seen_files, total_files,
                   episode_by_id, resolved_episodes, unresolved_files, replay>>

\* one <Video> of a season of the current show
PlexVideo ==
    /\ job = "plex" /\ pc = "stream" /\ series_db_id # NULL
    /\ \E e \in Candidates("video", PlexVideoRecords) :
         LET rows == InsertOrIgnorePlexEpisode(db.plex_episodes, e.key, series_db_id,
                                               e.season, e.index) IN
         /\ db' = [db EXCEPT !.plex_episodes = rows]
         /\ episode_db_id' = SelectIdByPlexKey(rows, e.key)
         /\ Consume(e)
    /\ UNCHANGED <<fsvars, before, job, conns, disk, clock, passes, pc, now, seen_files, total_files,
                   series_db_id, episode_by_id, resolved_episodes, unresolved_files,
                   replay>>

\* one <Part> of the current video
PlexPart ==
    /\ job = "plex" /\ pc = "stream" /\ episode_db_id # NULL
    /\ \E e \in Candidates("part", PlexPartRecords) :
         LET full_path == Resolve(e.file)
             filepath == Parent(full_path)
             filename == Name(full_path)
             inserted == InsertOrIgnorePlexFile(db.plex_files, filename, filepath,
                                                series_db_id, episode_db_id, now)
         IN
         /\ seen_files' = seen_files \cup {<<filename, filepath>>}
         /\ total_files' = total_files + 1
         /\ db' = [db EXCEPT !.plex_files = ClearRemovedPlexFile(inserted, filename, filepath)]
         /\ Consume(e)
    /\ UNCHANGED <<fsvars, before, job, conns, disk, clock, passes, pc, now, series_db_id, episode_db_id,
                   episode_by_id, resolved_episodes, unresolved_files, replay>>

\* the stream is exhausted: the removal loop runs, conn.commit(), and the
\* summary is printed
PlexFinalize ==
    /\ job = "plex" /\ pc = "stream" /\ StreamEnded
    /\ db' = [db EXCEPT !.plex_files = MarkRemovedPlexFiles(db.plex_files, seen_files, now)]
    /\ disk' = db'
    /\ pc' = "done"
    /\ UNCHANGED <<fsvars, before, job, conns, clock, passes, now, locals, obs, replay, pos>>

\* ------------------------------------------------------------- sonarr job

\* an episode as /api/v3/episode lists it
ApiEpisode(i) == [id |-> i, seasonNumber |-> 1, episodeNumber |-> i - 100]

\* what the API may report for a series, with the answer of
\* /api/v3/episode?seriesId= for it: series 10 is seen under two titles,
\* two paths and two episode listings (episode 101 renumbered in the second),
\* and episode 101 is also listed under series 20
SonarrSeriesRecords ==
    { [kind |-> "series", id |-> 10, title |-> "T1", path |-> <<"tv">>,
       episodes |-> {ApiEpisode(101)}],
      [kind |-> "series", id |-> 10, title |-> "T2", path |-> <<"tv", "s">>,
       episodes |-> {[ApiEpisode(101) EXCEPT !.seasonNumber = 2], ApiEpisode(102)}],
      [kind |-> "series", id |-> 20, title |-> "T1", path |-> <<"tv", "s">>,
       episodes |-> {ApiEpisode(101)}] }

\* an episode file: its path and its "episodeIds" (hasIds = FALSE: the key
\* is missing)
SonarrFileRecords ==
    { [kind |-> "file", path |-> <<"tv", "a">>, hasIds |-> TRUE, episodeIds |-> <<101>>],
      [kind |-> "file", path |-> <<"tv", "s", "..", "a">>, hasIds |-> FALSE,
       episodeIds |-> <<>>],
      [kind |-> "file", path |-> <<"tv", "s", "a">>, hasIds |-> TRUE, episodeIds |-> <<>>],
      [kind |-> "file", path |-> <<"tv", "s", "a">>, hasIds |-> TRUE,
       episodeIds |-> <<102, 101>>] }

\* mutant: an upsert, ON CONFLICT (sonarr_id) DO UPDATE SET title, path
UpsertSonarrSeries(rows, sid, title, path) ==
    IF \E r \in rows : r.sonarr_id = sid
    THEN { IF r.sonarr_id = sid THEN [r EXCEPT !.title = title, !.path = path]
           ELSE r : r \in rows }
    ELSE rows \cup {[id |-> NextId(rows), sonarr_id |-> sid, title |-> title,
                     path |-> path]}

\* INSERT OR IGNORE INTO sonarr_series (sonarr_id, title, path)
InsertOrIgnoreSonarrSeries(rows, sid, title, path) ==
    IF \E r \in rows : r.sonarr_id = sid THEN rows
    ELSE rows \cup {[id |-> NextId(rows), sonarr_id |-> sid, title |-> title,
                     path |-> path]}

\* SELECT id FROM sonarr_series / sonarr_episodes WHERE sonarr_id = ?
SelectIdBySonarrId(rows, sid) ==
    (CHOOSE r \in rows : r.sonarr_id = sid).id

\* INSERT OR IGNORE INTO sonarr_episodes (sonarr_id, series_id, season_number, episode_number)
InsertOrIgnoreSonarrEpisode(rows, eid, sid, season, number) ==
    IF \E r \in rows : r.sonarr_id = eid THEN rows
    ELSE rows \cup {[id |-> NextId(rows), sonarr_id |-> eid, series_id |-> sid,
                     season_number |-> season, episode_number |-> number]}

\* mutant: a plain INSERT on a table without the UNIQUE constraint
InsertSonarrFile(rows, file_path, sid, eid, ts) ==
    rows \cup {[id |-> NextId(rows), file_path |-> file_path,
                series_id |-> sid, episode_id |-> eid,
                added_date |-> ts, removed_date |-> NULL]}

\* INSERT OR IGNORE INTO sonarr_files (file_path, series_id, episode_id, added_date, NULL)
InsertOrIgnoreSonarrFile(rows, file_path, sid, eid, ts) ==
    IF \E r \in rows : r.file_path = file_path THEN rows
    ELSE rows \cup {[id |-> NextId(rows), file_path |-> file_path,
                     series_id |-> sid, episode_id |-> eid,
                     added_date |-> ts, removed_date |-> NULL]}

\* mutant: the UPDATE lacks its WHERE clause
ClearRemovedSonarrFiles(rows, file_path) ==
    { [r EXCEPT !.removed_date = NULL] : r \in rows }

\* UPDATE sonarr_files SET removed_date = NULL WHERE file_path = ?
ClearRemovedSonarrFile(rows, file_path) ==
    { IF r.file_path = file_path
      THEN [r EXCEPT !.removed_date = NULL] ELSE r : r \in rows }

\* mutant: a hard delete, DELETE FROM sonarr_files of the paths not seen
DeleteRemovedSonarrFiles(rows, seen, ts) ==
    { r \in rows : ~(r.removed_date = NULL /\ r.file_path \notin seen) }

\* mutant: the membership test is inverted
MarkSeenSonarrFiles(rows, seen, ts) ==
    { IF r.removed_date = NULL /\ r.file_path \in seen
      THEN [r EXCEPT !.removed_date = ts] ELSE r : r \in rows }

\* the "removed files" loop of sync_sonarr
MarkRemovedSonarrFiles(rows, seen, ts) ==
    { IF r.removed_date = NULL /\ r.file_path \notin seen
      THEN [r EXCEPT !.removed_date = ts] ELSE r : r \in rows }

\* ef.get("episodeIds") or []
EpisodeIdsOf(e) == IF e.hasIds THEN e.episodeIds ELSE <<>>

\* mutant: any of the file's episode ids may link it, not only the first
LinkedEpisodeAnyId(e, listing) ==
    { ep \in listing : \E i \in DOMAIN e.episodeIds : ep.id = e.episodeIds[i] }

\* episode_by_id.get(episode_ids[0]) when episode_ids is not empty: the
\* listed episode with the file's first id, if there is one
LinkedEpisode(e, listing) ==
    { ep \in listing : EpisodeIdsOf(e) # <<>> /\ ep.id = EpisodeIdsOf(e)[1] }

\* mutant: the inner else branch is missing, a file whose first episode id is
\* not listed is counted nowhere
UnresolvedIncrementNoIds(e, listing) == IF EpisodeIdsOf(e) = <<>> THEN 1 ELSE 0

\* the two else branches "unresolved_files += 1": taken when the list of ids
\* is empty or its first id is not a listed episode
UnresolvedIncrement(e, listing) == IF LinkedEpisode(e, listing) # {} THEN 0 ELSE 1

\* main() of tvfiles_sonarr.py starts; sync_sonarr takes `now' and fetches
\* the series list
SonarrStart ==
    /\ job = "sonarr" /\ pc = "idle"
    /\ BeginPass
    /\ obs' = <<>> /\ replay' = FALSE /\ pos' = 1
    /\ UNCHANGED <<job, conns, disk, db, fsvars>>

\* one series of the list: its row is inserted or found and its id read
\* back; the process then waits for the answer of episode?seriesId=, with
\* episode_by_id still what it was
SonarrSeries ==
    /\ job = "sonarr" /\ pc = "stream"
    /\ \E e \in Candidates("series", SonarrSeriesRecords) :
         LET rows == InsertOrIgnoreSonarrSeries(db.sonarr_series, e.id, e.title, e.path) IN
         /\ db' = [db EXCEPT !.sonarr_series = rows]
         /\ series_db_id' = SelectIdBySonarrId(rows, e.id)
         /\ Consume(e)
    /\ pc' = "fetch"
    /\ UNCHANGED <<fsvars, before, job, conns, disk, clock, passes, now, seen_files,
                   total_files, episode_db_id, episode_by_id, resolved_episodes,
                   unresolved_files, replay>>

\* the series record whose episodes are being fetched: the last one handled
FetchedSeries == IF replay THEN obs[pos - 1] ELSE obs[Len(obs)]

\* the episodes of the series have arrived: episode_by_id is rebuilt, and the
\* episode files are fetched
SonarrEpisodes ==
    /\ job = "sonarr" /\ pc = "fetch"
    /\ episode_by_id' = FetchedSeries.episodes
    /\ pc' = "stream"
    /\ UNCHANGED <<fsvars, before, job, conns, disk, db, clock, passes, now, seen_files,
                   total_files, series_db_id, episode_db_id, resolved_episodes,
                   unresolved_files, obs, replay, pos>>

\* one episode file of the current series
SonarrFile ==
    /\ job = "sonarr" /\ pc = "stream" /\ series_db_id # NULL
    /\ \E e \in Candidates("file", SonarrFileRecords) :
         LET file_path == Resolve(e.path)
             linked == LinkedEpisode(e, episode_by_id) # {}
             ep == CHOOSE x \in LinkedEpisode(e, episode_by_id) : TRUE
             episodes == IF linked
                         THEN InsertOrIgnoreSonarrEpisode(db.sonarr_episodes, ep.id,
                                  series_db_id, ep.seasonNumber, ep.episodeNumber)
                         ELSE db.sonarr_episodes
             episode_id_db == IF linked THEN SelectIdBySonarrId(episodes, ep.id) ELSE NULL
             inserted == InsertOrIgnoreSonarrFile(db.sonarr_files, file_path,
                                                  series_db_id, episode_id_db, now)
         IN
         /\ seen_files' = seen_files \cup {file_path}
         /\ total_files' = total_files + 1
         /\ resolved_episodes' = resolved_episodes + (IF linked THEN 1 ELSE 0)
         /\ unresolved_files' = unresolved_files + UnresolvedIncrement(e, episode_by_id)
         /\ db' = [db EXCEPT !.sonarr_episodes = episodes,
                             !.sonarr_files = ClearRemovedSonarrFile(inserted, file_path)]
         /\ Consume(e)
    /\ UNCHANGED <<fsvars, before, job, conns, disk, clock, passes, pc, now, series_db_id, episode_db_id,
                   episode_by_id, replay>>

\* the series list is exhausted: the removal loop runs, conn.commit(), and
\* the summary is printed
SonarrFinalize ==
    /\ job = "sonarr" /\ pc = "stream" /\ StreamEnded
    /\ db' = [db EXCEPT !.sonarr_files =
                            MarkRemovedSonarrFiles(db.sonarr_files, seen_files, now)]
    /\ disk' = db'
    /\ pc' = "done"
    /\ UNCHANGED <<fsvars, before, job, conns, clock, passes, now, locals, obs, replay, pos>>

\* --------------------------------------------------------- filesystem job

\* the files that may exist on disk: name, directory, and st_ctime (NULL
\* when stat() raises OSError)
FsFiles ==
    { [name |-> "x", root |-> <<"a">>, ctime |-> 1],
      [name |-> "y", root |-> <<"a", "s">>, ctime |-> NULL],
      [name |-> "y", root |-> <<"a", "s">>, ctime |-> 2] }

\* the directory contents: a directory holds a name once
FsStates ==
    { S \in SUBSET FsFiles :
        \A f, g \in S : (f.name = g.name /\ f.root = g.root) => f = g }

\* directories that may be unreadable (os.walk then yields nothing for them)
FsDirs == { <<"a", "s">> }

\* the command lines: --dirname (<<>> when absent) and --update
ArgSets == [dirname : {<<>>, <<"a">>, <<"a", ".", "s">>}, update : BOOLEAN]
NoArgs == [dirname |-> <<>>, update |-> FALSE]

IsPrefix(p, q) == Len(p) <= Len(q) /\ SubSeq(q, 1, Len(p)) = p

\* os.walk(d): the files below d, skipping what lies below an unreadable
\* directory (onerror is None: the error is swallowed)
Walk(d, files, blocked) ==
    { f \in files : /\ IsPrefix(d, f.root)
                    /\ ~ \E u \in blocked : IsPrefix(d, u) /\ IsPrefix(u, f.root) }

\* INSERT INTO scans (scan_date)
InsertScan(rows, seq, ts) == rows \cup {[id |-> AutoId(rows, seq), scan_date |-> ts]}

\* INSERT OR IGNORE INTO scan_dirs (dirname, first_added)
InsertOrIgnoreScanDir(rows, seq, dirname, ts) ==
    IF \E r \in rows : r.dirname = dirname THEN rows
    ELSE rows \cup {[id |-> AutoId(rows, seq), dirname |-> dirname, first_added |-> ts]}

\* mutant: the insert is followed by UPDATE files SET removed_date = NULL
\* for the file, as in the catalog jobs
InsertOrReactivateFile(rows, seq, fname, root_path, creation_date, ts) ==
    IF \E r \in rows : r.filename = fname /\ r.filepath = root_path
    THEN { IF r.filename = fname /\ r.filepath = root_path
           THEN [r EXCEPT !.removed_date = NULL] ELSE r : r \in rows }
    ELSE rows \cup {[id |-> AutoId(rows, seq), filename |-> fname, filepath |-> root_path,
                     creation_date |-> creation_date,
                     added_date |-> ts, removed_date |-> NULL]}

\* mutant: INSERT OR REPLACE
InsertOrReplaceFile(rows, seq, fname, root_path, creation_date, ts) ==
    { r \in rows : ~(r.filename = fname /\ r.filepath = root_path) }
        \cup {[id |-> AutoId(rows, seq), filename |-> fname, filepath |-> root_path,
               creation_date |-> creation_date,
               added_date |-> ts, removed_date |-> NULL]}

\* INSERT OR IGNORE INTO files (filename, filepath, creation_date, added_date, NULL)
InsertOrIgnoreFile(rows, seq, fname, root_path, creation_date, ts) ==
    IF \E r \in rows : r.filename = fname /\ r.filepath = root_path THEN rows
    ELSE rows \cup {[id |-> AutoId(rows, seq), filename |-> fname, filepath |-> root_path,
                     creation_date |-> creation_date,
                     added_date |-> ts, removed_date |-> NULL]}

\* the set `existing' of update_directories: a walk of every registered directory
ExistingFiles(dirs, files, blocked) ==
    { <<f.name, Resolve(f.root)>> :
        f \in UNION { Walk(d.dirname, files, blocked) : d \in dirs } }

\* mutant: nothing found is taken for "nothing to do"
MarkRemovedFilesUnlessEmpty(rows, present, ts) ==
    IF present = {} THEN rows
    ELSE { IF r.removed_date = NULL /\ <<r.filename, r.filepath>> \notin present
           THEN [r EXCEPT !.removed_date = ts] ELSE r : r \in rows }

\* the removal loop of update_directories
MarkRemovedFiles(rows, present, ts) ==
    { IF r.removed_date = NULL /\ <<r.filename, r.filepath>> \notin present
      THEN [r EXCEPT !.removed_date = ts] ELSE r : r \in rows }

\* files are created and deleted, directories lose and regain their
\* permissions, between two runs
FsChange ==
    /\ job = "fs" /\ pc = "idle" /\ passes < MaxPasses
    /\ \E fnew \in FsStates, unew \in SUBSET FsDirs :
         /\ <<fnew, unew>> # <<fsys, unreadable>>
         /\ fsys' = fnew /\ unreadable' = unew
    /\ UNCHANGED <<job, conns, disk, db, clock, passes, pc, now, locals, obs, replay, pos,
                   args, todo, total_inserted, removed, existing, before>>

\* main() of tvfiles_db.py: the arguments are parsed, the database is opened
FsStart ==
    /\ job = "fs" /\ pc = "idle" /\ passes < MaxPasses
    /\ passes' = passes + 1
    /\ \E a \in ArgSets : args' = a
    /\ before' = disk
    /\ pc' = "record_scan"
    /\ UNCHANGED <<job, conns, disk, db, clock, now, locals, obs, replay, pos,
                   fsys, unreadable, todo, total_inserted, removed, existing>>

\* record_scan: one row in scans, committed
FsRecordScan ==
    /\ job = "fs" /\ pc = "record_scan"
    /\ clock' = clock + 1
    /\ db' = [db EXCEPT !.scans = InsertScan(db.scans, db.sqlite_sequence.scans, clock + 1),
                        !.sqlite_sequence.scans = AutoId(db.scans, @)]
    /\ disk' = db'
    /\ pc' = IF args.dirname # <<>> THEN "record_dir"
             ELSE IF args.update THEN "update" ELSE "done"
    /\ UNCHANGED <<job, conns, passes, now, locals, obs, replay, pos, fsvars, before>>

\* record_dir(resolve(--dirname)): registered once, committed
FsRecordDir ==
    /\ job = "fs" /\ pc = "record_dir"
    /\ clock' = clock + 1
    /\ db' = [db EXCEPT !.scan_dirs =
                  InsertOrIgnoreScanDir(db.scan_dirs, db.sqlite_sequence.scan_dirs,
                                        Resolve(args.dirname), clock + 1),
                        !.sqlite_sequence.scan_dirs = AutoId(db.scan_dirs, @)]
    /\ disk' = db'
    /\ pc' = "scan_start"
    /\ UNCHANGED <<job, conns, passes, now, locals, obs, replay, pos, fsvars, before>>

\* scan_directory begins: now = utc_now(), the walk is set up
FsScanStart ==
    /\ job = "fs" /\ pc = "scan_start"
    /\ clock' = clock + 1
    /\ now' = clock + 1
    /\ todo' = Walk(Resolve(args.dirname), fsys, unreadable)
    /\ total_inserted' = 0
    /\ pc' = "scan"
    /\ UNCHANGED <<job, conns, disk, db, passes, locals, obs, replay, pos,
                   fsys, unreadable, args, removed, existing, before>>

\* one file of the walk (top-down: a directory's files before its
\* subdirectories' files)
FsScanFile ==
    /\ job = "fs" /\ pc = "scan"
    /\ \E f \in todo :
         /\ \A g \in todo : IsPrefix(g.root, f.root) => g.root = f.root
         /\ LET rows == InsertOrIgnoreFile(db.files, db.sqlite_sequence.files,
                                           f.name, Resolve(f.root), f.ctime, now) IN
            /\ db' = [db EXCEPT !.files = rows,
                                !.sqlite_sequence.files = AutoId(db.files, @)]
            /\ total_inserted' = total_inserted + (IF rows # db.files THEN 1 ELSE 0)
         /\ todo' = todo \ {f}
    /\ UNCHANGED <<job, conns, disk, clock, passes, pc, now, locals, obs, replay, pos,
                   fsys, unreadable, args, removed, existing, before>>

\* the walk is over: scan_directory commits
FsScanCommit ==
    /\ job = "fs" /\ pc = "scan" /\ todo = {}
    /\ disk' = db
    /\ pc' = IF args.update THEN "update" ELSE "done"
    /\ UNCHANGED <<job, conns, db, clock, passes, now, locals, obs, replay, pos, fsvars, before>>

\* update_directories: the registered directories are walked, every active
\* row that was not found is marked removed, and the change is committed
FsUpdate ==
    /\ job = "fs" /\ pc = "update"
    /\ clock' = clock + 1
    /\ now' = clock + 1
    /\ LET present == ExistingFiles(db.scan_dirs, fsys, unreadable)
           rows == MarkRemovedFiles(db.files, present, clock + 1) IN
       /\ existing' = present
       /\ db' = [db EXCEPT !.files = rows]
       /\ removed' = Cardinality(rows \ db.files)
    /\ disk' = db'
    /\ pc' = "done"
    /\ UNCHANGED <<job, conns, passes, locals, obs, replay, pos,
                   fsys, unreadable, args, todo, total_inserted, before>>

\* the same command line is run again on the same directory content
FsRerun ==
    /\ job = "fs" /\ pc = "done" /\ ~replay /\ passes < MaxPasses
    /\ passes' = passes + 1
    /\ before' = disk
    /\ replay' = TRUE
    /\ pc' = "record_scan"
    /\ now' = NULL
    /\ todo' = {} /\ total_inserted' = 0 /\ removed' = 0 /\ existing' = {}
    /\ UNCHANGED <<job, conns, disk, db, clock, locals, obs, pos, fsys, unreadable, args>>

\* ------------------------------------------------------ shared by the jobs

\* mutant: the connection runs in autocommit mode
OnAbortAutocommit(committed, working) == working

\* what the database file holds once the process has died without
\* conn.commit(): the open transaction is gone
OnAbort(committed, working) == committed

\* a raise_for_status()/requests error propagates out of main(): the process
\* ends and the open transaction is rolled back
Fail ==
    /\ job \in {"plex", "sonarr"} /\ pc \in {"stream", "fetch"}
    /\ disk' = OnAbort(disk, db)
    /\ db' = disk'
    /\ pc' = "aborted"
    /\ UNCHANGED <<fsvars, before, job, conns, clock, passes, now, locals, obs, replay, pos>>

\* an exception (sqlite3 error, interrupt) ends tvfiles_db.py before its
\* last statement: what was not committed yet is rolled back
FsFail ==
    /\ job = "fs"
    /\ pc \in {"record_scan", "record_dir", "scan_start", "scan", "update"}
    /\ disk' = OnAbort(disk, db)
    /\ db' = disk'
    /\ pc' = "aborted"
    /\ UNCHANGED <<fsvars, before, job, conns, clock, passes, now, locals, obs, replay, pos>>

\* conn.close(), the process ends
Exit ==
    /\ pc \in {"done", "aborted"}
    /\ pc' = "idle"
    /\ now' = NULL
    /\ before' = disk
    /\ seen_files' = {} /\ total_files' = 0
    /\ series_db_id' = NULL /\ episode_db_id' = NULL
    /\ episode_by_id' = {} /\ resolved_episodes' = 0 /\ unresolved_files' = 0
    /\ obs' = <<>> /\ replay' = FALSE /\ pos' = 1
    /\ args' = NoArgs
    /\ todo' = {} /\ total_inserted' = 0 /\ removed' = 0 /\ existing' = {}
    /\ UNCHANGED <<job, conns, disk, db, clock, passes, fsys, unreadable>>

\* the script is run again while the source still reports what it reported
Rerun ==
    /\ job \in {"plex", "sonarr"} /\ pc = "done" /\ ~replay
    /\ BeginPass
    /\ replay' = TRUE /\ pos' = 1
    /\ UNCHANGED <<job, conns, disk, db, obs, fsvars>>

\* the two processes that may run a catalog job against one database file
Procs == {1, 2}

\* a process that is not running: no pass, no open transaction
IdleConn ==
    [ pc |-> "idle", txn |-> FALSE, view |-> EmptyDb, now |-> NULL,
      seen_files |-> {}, total_files |-> 0,
      series_db_id |-> NULL, episode_db_id |-> NULL,
      cur |-> <<>>, active |-> {}, runs |-> 0, overlap |-> FALSE ]

\* what each script prints when a pass ends, as a record of counters
\* sync_plex: "files seen"
PlexSummary == [seen |-> total_files]

\* sync_sonarr: "files seen", "episodes linked", "unresolved"
SonarrSummary ==
    [seen |-> total_files, linked |-> resolved_episodes, unresolved |-> unresolved_files]

\* tvfiles_db.py: "Total files inserted this scan" (with --dirname) and
\* "Files marked as removed" (with --update)
FsSummary ==
    [k \in (IF args.dirname # <<>> THEN {"inserted"} ELSE {})
             \cup (IF args.update THEN {"removed"} ELSE {}) |->
        IF k = "inserted" THEN total_inserted ELSE removed]

Init ==
    /\ job \in {"fs", "plex", "sonarr"}
    /\ disk = EmptyDb /\ db = EmptyDb /\ before = EmptyDb
    /\ clock = 0 /\ passes = 0
    /\ pc = "idle" /\ now = NULL
    /\ seen_files = {} /\ total_files = 0
    /\ series_db_id = NULL /\ episode_db_id = NULL
    /\ episode_by_id = {} /\ resolved_episodes = 0 /\ unresolved_files = 0
    /\ obs = <<>> /\ replay = FALSE /\ pos = 1
    /\ fsys \in (IF job = "fs" THEN FsStates ELSE {{}}) /\ unreadable = {}
    /\ args = NoArgs
    /\ todo = {} /\ total_inserted = 0 /\ removed = 0 /\ existing = {}
    /\ conns = [p \in Procs |-> IdleConn]

Next ==
    \/ PlexStart
    \/ PlexShow
    \/ PlexVideo
    \/ PlexPart
    \/ PlexFinalize
    \/ SonarrStart
    \/ SonarrSeries
    \/ SonarrEpisodes
    \/ SonarrFile
    \/ SonarrFinalize
    \/ FsChange
    \/ FsStart
    \/ FsRecordScan
    \/ FsRecordDir
    \/ FsScanStart
    \/ FsScanFile
    \/ FsScanCommit
    \/ FsUpdate
    \/ FsRerun
    \/ Fail
    \/ FsFail
    \/ Exit
    \/ Rerun

Spec == Init /\ [][Next]_vars

\* ------------------------------------------- two processes on one database
\* Two processes run the same catalog job (job = "plex" or "sonarr") against
\* the same SQLite file.  conns[p] is the state of process p: its position,
\* its locals, and its open transaction (txn, view).  `disk' is the committed
\* content both read; `clock' is the wall clock.  SQLite lets one connection
\* write at a time: the first write of a pass opens the transaction and takes
\* the write lock, which commit or rollback releases.

\* the variables of the one-process runs, untouched here
seqvars == <<db, passes, pc, now, locals, obs, replay, pos, fsvars, before>>

\* what process p reads: its own transaction, else the committed content
Reads(p) == IF conns[p].txn THEN conns[p].view ELSE disk

\* the write lock is free, or p holds it
CanWrite(p) == \A q \in Procs \ {p} : ~conns[q].txn

\* SELECT filename, filepath / file_path FROM the leaf table WHERE removed_date IS NULL
ActiveKeys(d) ==
    IF job = "plex"
    THEN { PlexFileKey(r) : r \in { x \in d.plex_files : x.removed_date = NULL } }
    ELSE { r.file_path : r \in { x \in d.sonarr_files : x.removed_date = NULL } }

\* UPDATE plex_files SET removed_date = ? WHERE filename = ? AND filepath = ?,
\* for each key of the list
UpdateRemovedPlexFiles(rows, keys, ts) ==
    { IF PlexFileKey(r) \in keys THEN [r EXCEPT !.removed_date = ts] ELSE r : r \in rows }

\* UPDATE sonarr_files SET removed_date = ? WHERE file_path = ?, for each path
UpdateRemovedSonarrFiles(rows, paths, ts) ==
    { IF r.file_path \in paths THEN [r EXCEPT !.removed_date = ts] ELSE r : r \in rows }

\* main() starts in process p: the pass takes its timestamp
ConcStart(p) ==
    /\ conns[p].pc = "idle" /\ conns[p].runs < MaxRuns
    /\ clock' = clock + 1
    /\ conns' = [conns EXCEPT ![p] =
                   [IdleConn EXCEPT !.pc = "parents", !.now = clock + 1,
                                    !.runs = conns[p].runs + 1,
                                    !.overlap = \E q \in Procs \ {p} :
                                        conns[q].pc \notin {"idle", "done", "aborted", "locked"}]]
    /\ UNCHANGED <<job, disk, seqvars>>

\* the first show (series) of the catalog: INSERT OR IGNORE of its row and
\* SELECT of its id.  This is the first write of the pass: it opens the
\* transaction and takes the write lock, which the pass holds while it
\* fetches the seasons and episodes of the show
ConcSeries(p) ==
    /\ conns[p].pc = "parents" /\ CanWrite(p)
    /\ LET base == Reads(p) IN
       IF job = "plex"
       THEN LET series == InsertOrIgnorePlexSeries(base.plex_series, "/show/1", "T1")
            IN conns' = [conns EXCEPT ![p] =
                   [@ EXCEPT !.pc = "episode", !.txn = TRUE,
                             !.view = [base EXCEPT !.plex_series = series],
                             !.series_db_id = SelectIdByPlexKey(series, "/show/1")]]
       ELSE LET series == InsertOrIgnoreSonarrSeries(base.sonarr_series, 10, "T1", <<"tv">>)
            IN conns' = [conns EXCEPT ![p] =
                   [@ EXCEPT !.pc = "parts", !.txn = TRUE,
                             !.view = [base EXCEPT !.sonarr_series = series],
                             !.series_db_id = SelectIdBySonarrId(series, 10)]]
    /\ UNCHANGED <<job, disk, clock, seqvars>>

\* sync_plex: the seasons and episodes of the show have been fetched; the
\* first episode's INSERT OR IGNORE and the SELECT of its id
ConcEpisode(p) ==
    /\ job = "plex" /\ conns[p].pc = "episode" /\ CanWrite(p)
    /\ LET base == Reads(p)
           eps == InsertOrIgnorePlexEpisode(base.plex_episodes, "/ep/1",
                                            conns[p].series_db_id, 1, 1)
       IN conns' = [conns EXCEPT ![p] =
              [@ EXCEPT !.pc = "parts", !.txn = TRUE,
                        !.view = [base EXCEPT !.plex_episodes = eps],
                        !.episode_db_id = SelectIdByPlexKey(eps, "/ep/1")]]
    /\ UNCHANGED <<job, disk, clock, seqvars>>

\* one file of the catalog: the INSERT OR IGNORE of its row (sonarr: after
\* that of its episode)
ConcInsert(p) ==
    /\ conns[p].pc = "parts" /\ conns[p].total_files < MaxParts /\ CanWrite(p)
    /\ \E raw \in RawPaths :
         LET base == Reads(p)
             c == conns[p]
             full_path == Resolve(raw)
         IN
         IF job = "plex"
         THEN conns' = [conns EXCEPT ![p] =
                [@ EXCEPT !.pc = "clear", !.txn = TRUE,
                          !.seen_files = @ \cup {<<Name(full_path), Parent(full_path)>>},
                          !.total_files = @ + 1,
                          !.cur = <<Name(full_path), Parent(full_path)>>,
                          !.view = [base EXCEPT !.plex_files =
                              InsertOrIgnorePlexFile(base.plex_files, Name(full_path),
                                  Parent(full_path), c.series_db_id, c.episode_db_id,
                                  c.now)]]]
         ELSE LET ep == ApiEpisode(101)
                  eps == InsertOrIgnoreSonarrEpisode(base.sonarr_episodes, ep.id,
                             c.series_db_id, ep.seasonNumber, ep.episodeNumber)
              IN conns' = [conns EXCEPT ![p] =
                [@ EXCEPT !.pc = "clear", !.txn = TRUE,
                          !.seen_files = @ \cup {full_path},
                          !.total_files = @ + 1,
                          !.cur = full_path,
                          !.view = [base EXCEPT
                              !.sonarr_episodes = eps,
                              !.sonarr_files =
                                  InsertOrIgnoreSonarrFile(base.sonarr_files, full_path,
                                      c.series_db_id, SelectIdBySonarrId(eps, ep.id),
                                      c.now)]]]
    /\ UNCHANGED <<job, disk, clock, seqvars>>

\* the UPDATE that clears removed_date of the file just handled
ConcClear(p) ==
    /\ conns[p].pc = "clear" /\ CanWrite(p)
    /\ LET base == Reads(p)
           c == conns[p]
       IN conns' = [conns EXCEPT ![p] =
            [@ EXCEPT !.pc = "parts", !.txn = TRUE,
                      !.view = IF job = "plex"
                               THEN [base EXCEPT !.plex_files =
                                        ClearRemovedPlexFile(base.plex_files,
                                                             c.cur[1], c.cur[2])]
                               ELSE [base EXCEPT !.sonarr_files =
                                        ClearRemovedSonarrFile(base.sonarr_files, c.cur)]]]
    /\ UNCHANGED <<job, disk, clock, seqvars>>

\* the catalog is exhausted (it may have had no show, or a show without
\* episodes): the SELECT of the active rows
ConcSelectActive(p) ==
    /\ conns[p].pc \in {"parents", "episode", "parts"}
    /\ conns' = [conns EXCEPT ![p] =
                   [@ EXCEPT !.pc = "remove", !.active = ActiveKeys(Reads(p))]]
    /\ UNCHANGED <<job, disk, clock, seqvars>>

\* the UPDATEs of the removal loop, one for each selected key that was not
\* seen (no statement, so no lock, when there is none)
ConcMarkRemoved(p) ==
    /\ conns[p].pc = "remove"
    /\ LET base == Reads(p)
           c == conns[p]
           gone == c.active \ c.seen_files
       IN
       IF gone = {}
       THEN conns' = [conns EXCEPT ![p] = [@ EXCEPT !.pc = "commit"]]
       ELSE /\ CanWrite(p)
            /\ conns' = [conns EXCEPT ![p] =
                 [@ EXCEPT !.pc = "commit", !.txn = TRUE,
                           !.view = IF job = "plex"
                                    THEN [base EXCEPT !.plex_files =
                                             UpdateRemovedPlexFiles(base.plex_files,
                                                                    gone, c.now)]
                                    ELSE [base EXCEPT !.sonarr_files =
                                             UpdateRemovedSonarrFiles(base.sonarr_files,
                                                                      gone, c.now)]]]
    /\ UNCHANGED <<job, disk, clock, seqvars>>

\* conn.commit(): the transaction, if one is open, becomes the committed
\* content and the write lock is released
ConcCommit(p) ==
    /\ conns[p].pc = "commit"
    /\ disk' = Reads(p)
    /\ conns' = [conns EXCEPT ![p] =
                   [@ EXCEPT !.pc = "done", !.txn = FALSE, !.view = EmptyDb]]
    /\ UNCHANGED <<job, clock, seqvars>>

\* a write statement of p finds the write lock held by the other process
\* for longer than the connection's timeout (5 s by default):
\* sqlite3.OperationalError "database is locked" ends the process
ConcLocked(p) ==
    /\ conns[p].pc \in {"parents", "episode", "parts", "clear", "remove"}
    /\ conns[p].pc = "parts" => conns[p].total_files < MaxParts
    /\ conns[p].pc = "remove" => conns[p].active \ conns[p].seen_files # {}
    /\ ~CanWrite(p)
    /\ conns' = [conns EXCEPT ![p] =
                   [@ EXCEPT !.pc = "locked", !.txn = FALSE, !.view = EmptyDb]]
    /\ UNCHANGED <<job, disk, clock, seqvars>>

\* an HTTP error ends the pass of p: its open transaction is rolled back
ConcFail(p) ==
    /\ conns[p].pc \in {"parents", "episode", "parts"}
    /\ conns' = [conns EXCEPT ![p] =
                   [@ EXCEPT !.pc = "aborted", !.txn = FALSE, !.view = EmptyDb]]
    /\ UNCHANGED <<job, disk, clock, seqvars>>

\* conn.close(), the process of p ends
ConcExit(p) ==
    /\ conns[p].pc \in {"done", "aborted", "locked"}
    /\ conns' = [conns EXCEPT ![p] = [IdleConn EXCEPT !.runs = conns[p].runs]]
    /\ UNCHANGED <<job, disk, clock, seqvars>>

InitConc == Init /\ job \in {"plex", "sonarr"}

NextConc ==
    \/ \E p \in Procs : ConcStart(p)
    \/ \E p \in Procs : ConcSeries(p)
    \/ \E p \in Procs : ConcEpisode(p)
    \/ \E p \in Procs : ConcInsert(p)
    \/ \E p \in Procs : ConcClear(p)
    \/ \E p \in Procs : ConcSelectActive(p)
    \/ \E p \in Procs : ConcMarkRemoved(p)
    \/ \E p \in Procs : ConcCommit(p)
    \/ \E p \in Procs : ConcLocked(p)
    \/ \E p \in Procs : ConcFail(p)
    \/ \E p \in Procs : ConcExit(p)

SpecConc == InitConc /\ [][NextConc]_vars

\* ------------------------------------------------------------------ claims

Sync == {"plex", "sonarr"}

\* the leaf table of the running job in a database state d, and a row's
\* natural key
Files(d) == IF job = "plex" THEN d.plex_files
            ELSE IF job = "sonarr" THEN d.sonarr_files ELSE d.files
KeyOf(r) == IF job = "sonarr" THEN r.file_path ELSE <<r.filename, r.filepath>>

\* the leaf keys the source reported in the records e1..en of a pass,
\* each in canonical form
KeysIn(events) ==
    { IF events[i].kind = "part"
      THEN <<Name(Resolve(events[i].file)), Parent(Resolve(events[i].file))>>
      ELSE Resolve(events[i].path) :
        i \in { j \in DOMAIN events : events[j].kind \in {"part", "file"} } }

\* the leaf keys observed in the pass that has just completed
Observed == KeysIn(obs)

\* C1: soft-delete round trip in sync_plex and sync_sonarr.  When a pass
\* completes, a key that had an active row and was not observed is left with
\* a non-null removed_date, and a key that had a removed row and was observed
\* again has removed_date null and the added_date it had before.
C1_SoftDeleteRoundTrip ==
    (job \in Sync /\ pc = "done") =>
        \A r \in Files(before) :
            /\ \E r2 \in Files(disk) : KeyOf(r2) = KeyOf(r)
            /\ \A r2 \in Files(disk) : KeyOf(r2) = KeyOf(r) =>
                 /\ (r.removed_date = NULL /\ KeyOf(r) \notin Observed)
                        => r2.removed_date # NULL
                 /\ (r.removed_date # NULL /\ KeyOf(r) \in Observed)
                        => (r2.removed_date = NULL /\ r2.added_date = r.added_date)

\* a third pass has completed: the key was added in a first pass, marked
\* removed by a second one, and is observed and active again
C1_Witness ==
    /\ job \in Sync /\ pc = "done"
    /\ \E r \in Files(before) : \E r2 \in Files(disk) :
         /\ KeyOf(r2) = KeyOf(r) /\ KeyOf(r) \in Observed
         /\ r.added_date < r.removed_date /\ r.removed_date < now
         /\ r2.removed_date = NULL /\ r2.added_date = r.added_date

\* C2 (as claimed): once scan_directory has committed, every file it
\* observed under --dirname has a row with removed_date null.
C2_ScanReactivates ==
    (job = "fs" /\ args.dirname # <<>> /\ pc \in {"update", "done"}) =>
        \A f \in Walk(Resolve(args.dirname), fsys, unreadable) :
            \E r \in disk.files :
                /\ r.filename = f.name /\ r.filepath = Resolve(f.root)
                /\ r.removed_date = NULL

\* C3: idempotency.  A pass that is run again on the same observations
\* leaves the series, episode and file tables as the first pass left them
\* and inserts no row.
C3_Idempotent ==
    (pc = "done" /\ replay) =>
        /\ job = "plex" => /\ disk.plex_series = before.plex_series
                           /\ disk.plex_episodes = before.plex_episodes
                           /\ disk.plex_files = before.plex_files
        /\ job = "sonarr" => /\ disk.sonarr_series = before.sonarr_series
                             /\ disk.sonarr_episodes = before.sonarr_episodes
                             /\ disk.sonarr_files = before.sonarr_files
        /\ job = "fs" => /\ disk.files = before.files
                         /\ disk.scan_dirs = before.scan_dirs
                         /\ total_inserted = 0

\* a repeated pass has completed on a store that holds an active row and a
\* removed row
C3_Witness ==
    /\ pc = "done" /\ replay
    /\ \E r \in Files(disk) : r.removed_date = NULL /\ r.added_date < now
    /\ \E r \in Files(disk) : r.removed_date # NULL

\* C4: finalizing is a set difference in sync_plex and sync_sonarr.  When a
\* pass completes the active keys are exactly the observed keys, every row
\* that was active and unobserved carries the pass timestamp as
\* removed_date, and no observed row is marked removed.
C4_FinalizeIsSetDifference ==
    (job \in Sync /\ pc = "done") =>
        /\ { KeyOf(r) : r \in { x \in Files(disk) : x.removed_date = NULL } } = Observed
        /\ \A r \in Files(before) :
             (r.removed_date = NULL /\ KeyOf(r) \notin Observed) =>
                 \A r2 \in Files(disk) : KeyOf(r2) = KeyOf(r) => r2.removed_date = now
        /\ \A r2 \in Files(disk) : KeyOf(r2) \in Observed => r2.removed_date = NULL

\* a pass has completed that observed one key and marked another removed
C4_Witness ==
    /\ job \in Sync /\ pc = "done"
    /\ Observed # {}
    /\ \E r \in Files(before) : \E r2 \in Files(disk) :
         /\ KeyOf(r2) = KeyOf(r) /\ KeyOf(r) \notin Observed
         /\ r.removed_date = NULL /\ r2.removed_date = now

\* the ids of the rows of every table of a database state
RowIds(d) == [t \in Tables |-> { r.id : r \in d[t] }]

\* the pass that has just completed had nothing to observe: the catalog
\* reported no record, or --update found no file under any registered
\* directory
EmptyPass ==
    IF job = "fs"
    THEN args.update /\ ExistingFiles(disk.scan_dirs, fsys, unreadable) = {}
    ELSE obs = <<>>

\* every leaf row that was active when the pass began is now marked removed
\* with the pass timestamp, and no leaf row is active
AllMarkedRemoved ==
    /\ \A r \in Files(before) : r.removed_date = NULL =>
          [r EXCEPT !.removed_date = now] \in Files(disk)
    /\ \A r \in Files(disk) : r.removed_date # NULL

\* C5 (as claimed): a pass with nothing to observe marks every active leaf
\* row removed and inserts no row in any table.
C5_NoRowInAnyTable ==
    (pc = "done" /\ EmptyPass) =>
        /\ AllMarkedRemoved
        /\ RowIds(disk) = RowIds(before)

\* C5 (amended): a pass with nothing to observe marks every active leaf row
\* removed with the pass timestamp and inserts no series, episode or file
\* row; a run of the filesystem job adds rows to scans and scan_dirs only.
C5_EmptyObservation ==
    (pc = "done" /\ EmptyPass) =>
        /\ AllMarkedRemoved
        /\ job \in Sync => RowIds(disk) = RowIds(before)
        /\ job = "fs" =>
             \A t \in Tables \ {"scans", "scan_dirs"} :
                 RowIds(disk)[t] = RowIds(before)[t]

\* an empty pass has completed and has marked a row removed that was active
C5_Witness ==
    /\ pc = "done" /\ EmptyPass
    /\ \E r \in Files(before) : r.removed_date = NULL
    /\ \E r \in Files(disk) : r.removed_date = now

\* C6: natural-key uniqueness.  In every state, in the connection's view and
\* in the committed database, files and plex_files hold at most one row per
\* (filename, directory) pair and sonarr_files at most one row per resolved
\* absolute path.
C6_NaturalKeyUnique ==
    \A d \in {db, disk} :
        /\ \A r1, r2 \in d.files :
             (r1.filename = r2.filename /\ r1.filepath = r2.filepath) => r1 = r2
        /\ \A r1, r2 \in d.plex_files :
             (r1.filename = r2.filename /\ r1.filepath = r2.filepath) => r1 = r2
        /\ \A r1, r2 \in d.sonarr_files :
             (Resolve(r1.file_path) = Resolve(r2.file_path)) => r1 = r2

\* one pass has observed the same file under two spellings of its path and
\* the table holds one row for it
C6_Witness ==
    /\ job = "sonarr" /\ pc = "stream" /\ total_files = 2
    /\ \E i, j \in DOMAIN obs :
         /\ obs[i].kind = "file" /\ obs[j].kind = "file"
         /\ obs[i].path # obs[j].path
         /\ Resolve(obs[i].path) = Resolve(obs[j].path)
    /\ Cardinality(db.sonarr_files) = 1

\* the record a streaming step has just handled
Handled == IF replay THEN obs[pos] ELSE obs'[Len(obs')]

\* an episode file that cannot be linked: episodeIds missing or empty, or its
\* first id not among the episodes listed for the series
Unresolvable(e, listing) ==
    \/ ~e.hasIds
    \/ e.episodeIds = <<>>
    \/ \A ep \in listing : ep.id # e.episodeIds[1]

\* C7: unresolvable link in sync_sonarr.  Handling an episode file that
\* cannot be linked adds exactly one to the unresolved counter and nothing to
\* the linked counter, leaves the pass streaming and the file recorded as
\* active, with a null episode_id if its row is new, and no file row refers
\* to an episode row that is absent.
C7_UnresolvedStep ==
    (job = "sonarr" /\ pc = "stream" /\ total_files' = total_files + 1) =>
        /\ Unresolvable(Handled, episode_by_id) =>
             /\ unresolved_files' = unresolved_files + 1
             /\ resolved_episodes' = resolved_episodes
             /\ pc' = "stream"
             /\ db'.sonarr_episodes = db.sonarr_episodes
             /\ \E r \in db'.sonarr_files :
                    r.file_path = Resolve(Handled.path) /\ r.removed_date = NULL
             /\ \A r \in db'.sonarr_files :
                    (\A r0 \in db.sonarr_files : r0.file_path # r.file_path)
                        => r.episode_id = NULL
        /\ \A r \in db'.sonarr_files :
             r.episode_id # NULL => \E ep \in db'.sonarr_episodes : ep.id = r.episode_id

C7_UnresolvedLink == [][C7_UnresolvedStep]_vars

\* a pass has completed in which a file that could not be linked (its first
\* episode id is not listed) was followed by a file that was linked
C7_Witness ==
    /\ job = "sonarr" /\ pc = "done" /\ ~replay
    /\ unresolved_files = 1 /\ resolved_episodes = 1
    /\ Len(obs) = 3
    /\ obs[2].kind = "file" /\ obs[2].episodeIds = <<102, 101>>
    /\ obs[3].kind = "file" /\ obs[3].episodeIds = <<101>>
    /\ \E r \in disk.sonarr_files : r.episode_id = NULL /\ r.added_date = now
    /\ \E r \in disk.sonarr_files : r.episode_id # NULL /\ r.added_date = now

\* C8: referential integrity in sync_plex and sync_sonarr.  In every state,
\* during a pass and after it, every episode row's series_id and every file
\* row's series_id is the id of a series row, and every file row's
\* episode_id is null or the id of an episode row.
C8_ReferentialIntegrity ==
    \A d \in {db, disk} :
        /\ \A e \in d.plex_episodes : \E x \in d.plex_series : x.id = e.series_id
        /\ \A f \in d.plex_files :
             /\ \E x \in d.plex_series : x.id = f.series_id
             /\ f.episode_id = NULL \/ \E e \in d.plex_episodes : e.id = f.episode_id
        /\ \A e \in d.sonarr_episodes : \E x \in d.sonarr_series : x.id = e.series_id
        /\ \A f \in d.sonarr_files :
             /\ \E x \in d.sonarr_series : x.id = f.series_id
             /\ f.episode_id = NULL \/ \E e \in d.sonarr_episodes : e.id = f.episode_id

\* in the middle of the first pass on an empty database a file row refers to
\* the series and the episode that the same pass has inserted
C8_Witness ==
    /\ job \in Sync /\ pc = "stream"
    /\ disk = EmptyDb
    /\ \E f \in Files(db) : f.series_id # NULL /\ f.episode_id # NULL

\* C9: added_date is immutable.  No step of any job changes the added_date
\* of a leaf row that exists, in the connection's view or in the committed
\* database, and a row that a step inserts carries the timestamp of the
\* running pass.
C9_AddedDateStep ==
    /\ \A r \in Files(db) : \A r2 \in Files(db') :
         KeyOf(r2) = KeyOf(r) => r2.added_date = r.added_date
    /\ \A r \in Files(disk) : \A r2 \in Files(disk') :
         KeyOf(r2) = KeyOf(r) => r2.added_date = r.added_date
    /\ \A r2 \in Files(db') :
         (\A r \in Files(db) : KeyOf(r) # KeyOf(r2)) =>
             (now # NULL /\ r2.added_date = now)

C9_AddedDateImmutable == [][C9_AddedDateStep]_vars

\* a scan has walked over a file whose row an earlier run inserted and a
\* later run marked removed
C9_Witness ==
    /\ job = "fs" /\ pc = "scan" /\ todo = {}
    /\ \E f \in Walk(Resolve(args.dirname), fsys, unreadable) :
         \E r \in db.files :
            /\ r.filename = f.name /\ r.filepath = Resolve(f.root)
            /\ r.added_date < r.removed_date /\ r.removed_date < now

\* C10: no partial commit on source failure in sync_plex and sync_sonarr.
\* While a pass streams, the committed database stays what it was when the
\* pass began, and a pass that aborts leaves the committed database, and
\* what the next connection reads, equal to that content.
C10_NoPartialCommitStep ==
    (job \in Sync /\ pc \in {"stream", "fetch"}) =>
        /\ pc' # "done" => disk' = before
        /\ pc' = "aborted" => db' = before

C10_NoPartialCommit == [][C10_NoPartialCommitStep]_vars

\* a pass has aborted after it had inserted one row and cleared the
\* removed_date of another: the committed database shows neither
C10_Witness ==
    /\ job \in Sync /\ pc = "aborted"
    /\ \E k \in seen_files : \A r \in Files(disk) : KeyOf(r) # k
    /\ \E r \in Files(disk) : KeyOf(r) \in seen_files /\ r.removed_date # NULL

\* C11 (as claimed): a run of the filesystem job that fails before it
\* finishes leaves the scans, scan_dirs and files tables as they were when
\* the run began.
C11_AllOrNothingFs ==
    (job = "fs" /\ pc = "aborted") =>
        /\ disk.scans = before.scans
        /\ disk.scan_dirs = before.scan_dirs
        /\ disk.files = before.files

\* a registered directory, or a directory below one, cannot be read
SourceUnreadable ==
    \E d \in disk.scan_dirs : \E u \in unreadable : IsPrefix(d.dirname, u)

\* C12 (as claimed): an --update run during which a directory below a
\* registered directory cannot be read marks no file row removed; in
\* particular a file that is still on disk, inside the directory that could
\* not be read, keeps its row active.
C12_UpdateFailsFast ==
    (job = "fs" /\ pc = "done" /\ args.update /\ SourceUnreadable) =>
        \A r \in before.files :
            (r.removed_date = NULL /\
             \E f \in fsys : f.name = r.filename /\ Resolve(f.root) = r.filepath)
                => \E r2 \in disk.files : r2.id = r.id /\ r2.removed_date = NULL

\* the counters the running job has printed for the pass that has completed
Summary == IF job = "plex" THEN PlexSummary
           ELSE IF job = "sonarr" THEN SonarrSummary ELSE FsSummary

\* the number of leaf observations of the pass, the number of leaf rows it
\* created, and the number of leaf rows it marked removed
LeafObservations ==
    IF job = "fs"
    THEN Cardinality(IF args.dirname # <<>>
                     THEN Walk(Resolve(args.dirname), fsys, unreadable) ELSE {})
    ELSE Cardinality({ i \in DOMAIN obs : obs[i].kind \in {"part", "file"} })
LeafRowsCreated ==
    Cardinality({ r.id : r \in Files(disk) } \ { r.id : r \in Files(before) })
LeafRowsMarked ==
    Cardinality({ r \in Files(before) :
                    /\ r.removed_date = NULL
                    /\ \E r2 \in Files(disk) : r2.id = r.id /\ r2.removed_date # NULL })

\* C13 (as claimed): when a pass completes, the job has reported the counters
\* seen, inserted and removed, equal to the number of leaf observations, of
\* leaf rows created and of leaf rows marked removed by the pass.
C13_PassSummary ==
    pc = "done" =>
        /\ {"seen", "inserted", "removed"} \subseteq DOMAIN Summary
        /\ Summary.seen = LeafObservations
        /\ Summary.inserted = LeafRowsCreated
        /\ Summary.removed = LeafRowsMarked

\* the keys the running pass has counted as present so far
SeenKeys == IF job = "fs" THEN existing ELSE seen_files

\* C14: removed_date transition discipline.  A step of a running pass changes
\* the removed_date of an existing leaf row only from null to the pass
\* timestamp, when the key was not seen, or from a timestamp to null, when
\* the key was seen, and only if the pass has not changed that row before;
\* and when a pass completes, a row that was removed before the pass and was
\* not seen in it has the removed_date it had.
C14_TransitionStep ==
    /\ pc' # "aborted" =>
         \A r \in Files(db) : \A r2 \in Files(db') :
            (r2.id = r.id /\ r2.removed_date # r.removed_date) =>
                /\ \/ /\ r.removed_date = NULL
                      /\ now' # NULL /\ r2.removed_date = now'
                      /\ KeyOf(r) \notin SeenKeys'
                   \/ /\ r.removed_date # NULL
                      /\ r2.removed_date = NULL
                      /\ KeyOf(r) \in SeenKeys'
                /\ \A r0 \in Files(before) :
                      r0.id = r.id => r0.removed_date = r.removed_date
    /\ pc' = "done" =>
         \A r0 \in Files(before') :
            (r0.removed_date # NULL /\ KeyOf(r0) \notin SeenKeys') =>
                r0 \in Files(disk')

C14_RemovedDateDiscipline == [][C14_TransitionStep]_vars

\* a pass has completed that cleared the removed_date of one row, marked
\* another row removed, each once
C14_Witness ==
    /\ job \in Sync /\ pc = "done"
    /\ \E r \in Files(before) : \E r2 \in Files(disk) :
         r2.id = r.id /\ r.removed_date # NULL /\ r2.removed_date = NULL
    /\ \E r \in Files(before) : \E r2 \in Files(disk) :
         r2.id = r.id /\ r.removed_date = NULL /\ r2.removed_date = now

\* the natural key of a row of table t
NaturalKey(t, r) ==
    IF t \in {"plex_series", "plex_episodes"} THEN r.plex_key
    ELSE IF t \in {"sonarr_series", "sonarr_episodes"} THEN r.sonarr_id
    ELSE IF t \in {"plex_files", "files"} THEN <<r.filename, r.filepath>>
    ELSE IF t = "sonarr_files" THEN r.file_path
    ELSE IF t = "scan_dirs" THEN r.dirname
    ELSE r.id

LeafTables == {"files", "plex_files", "sonarr_files"}

\* between database states d and e every key of d that e still holds has
\* the row it had, up to the removed_date of a leaf row
SameAttributes(d, e) ==
    \A t \in Tables : \A r \in d[t] : \A r2 \in e[t] :
        NaturalKey(t, r2) = NaturalKey(t, r) =>
            IF t \in LeafTables
            THEN [r2 EXCEPT !.removed_date = r.removed_date] = r
            ELSE r2 = r

\* C15: first-write-wins attributes.  No step of any job changes the id or
\* an attribute of a row whose key is already stored, in the connection's
\* view or in the committed database, whatever the attributes the key is
\* observed with; the removed_date of a leaf row is the only column that
\* changes.
C15_FirstWriteWinsStep == SameAttributes(db, db') /\ SameAttributes(disk, disk')

C15_FirstWriteWins == [][C15_FirstWriteWinsStep]_vars

\* a pass has completed that observed a stored series under another title
\* and path, a stored episode under another season number, and a stored
\* file under another series and episode
C15_Witness ==
    /\ job = "sonarr" /\ pc = "done" /\ ~replay
    /\ \E i \in DOMAIN obs : \E x \in before.sonarr_series :
         /\ obs[i].kind = "series" /\ obs[i].id = x.sonarr_id
         /\ obs[i].title # x.title /\ obs[i].path # x.path
         /\ x \in disk.sonarr_series
         /\ \E ep \in obs[i].episodes : \E y \in before.sonarr_episodes :
              /\ ep.id = y.sonarr_id /\ ep.seasonNumber # y.season_number
              /\ y \in disk.sonarr_episodes
    /\ \E f \in before.sonarr_files :
         /\ f.file_path \in Observed
         /\ f.series_id # series_db_id
         /\ f \in disk.sonarr_files

\* every row of database state d is present in e, with its key and its id
RowsKept(d, e) ==
    \A t \in Tables : \A r \in d[t] :
        \E r2 \in e[t] : r2.id = r.id /\ NaturalKey(t, r2) = NaturalKey(t, r)

\* C16: no physical deletion.  No step of any job removes a row from the
\* committed database or changes its key or id, so the stored keys only
\* grow; within a pass the connection's view loses no row either (an aborted
\* pass gives up only rows it had not committed).
C16_NoDeletionStep ==
    /\ RowsKept(disk, disk')
    /\ pc' # "aborted" => RowsKept(db, db')
    /\ pc' = "done" => RowsKept(before', disk')

C16_NoPhysicalDeletion == [][C16_NoDeletionStep]_vars

\* a pass that observed nothing has completed on a store that held series,
\* episode and file rows, the file row active: all of them are still stored
C16_Witness ==
    /\ job \in Sync /\ pc = "done" /\ obs = <<>>
    /\ \E r \in Files(before) : r.removed_date = NULL
    /\ IF job = "plex"
       THEN before.plex_series # {} /\ before.plex_episodes # {}
       ELSE before.sonarr_series # {} /\ before.sonarr_episodes # {}
    /\ RowsKept(before, disk)

\* the leaf tables of the catalog jobs hold one row per natural key in
\* database state d
UniqueLeafKeys(d) ==
    /\ \A r1, r2 \in d.plex_files : PlexFileKey(r1) = PlexFileKey(r2) => r1 = r2
    /\ \A r1, r2 \in d.sonarr_files : r1.file_path = r2.file_path => r1 = r2

\* C17 (amended): when two passes of the same catalog job run at the same
\* time against the same database, the leaf table never holds two rows with
\* the same natural key, in the committed content or in either process's
\* open transaction.
C17_NoDuplicateKey ==
    /\ UniqueLeafKeys(disk)
    /\ \A p \in Procs : UniqueLeafKeys(conns[p].view)

\* C17 (as claimed): ... and the insert of the pass that comes second is
\* ignored rather than raising: no process ends on "database is locked".
C17_SecondInsertIgnored ==
    /\ UniqueLeafKeys(disk)
    /\ \A p \in Procs : UniqueLeafKeys(conns[p].view)
    /\ \A p \in Procs : conns[p].pc # "locked"

\* process p started its pass while the pass of q was running, both observed
\* the same file, q committed first and p's insert of the key was ignored:
\* both have committed and the one row of the key is the row of q
C17_Witness ==
    \E p \in Procs : \E q \in Procs \ {p} :
        /\ conns[p].pc = "done" /\ conns[q].pc = "done"
        /\ conns[p].overlap /\ conns[q].now < conns[p].now
        /\ \E k \in conns[p].seen_files \cap conns[q].seen_files :
             \E r \in Files(disk) : KeyOf(r) = k /\ r.added_date = conns[q].now

\* C18: the counters of sync_sonarr partition the observations.  After every
\* step of a pass, files seen = episodes linked + unresolved, and a step that
\* handles an episode file adds one to exactly one of the two counters,
\* whether or not the file's key was seen earlier in the pass.
C18_CountersStep ==
    job = "sonarr" =>
        /\ total_files' = resolved_episodes' + unresolved_files'
        /\ total_files' = total_files + 1 =>
             \/ /\ resolved_episodes' = resolved_episodes + 1
                /\ unresolved_files' = unresolved_files
             \/ /\ resolved_episodes' = resolved_episodes
                /\ unresolved_files' = unresolved_files + 1
        /\ pc' = "done" => SonarrSummary'.seen = SonarrSummary'.linked + SonarrSummary'.unresolved

C18_CountersPartition == [][C18_CountersStep]_vars

\* a pass has completed that observed one file twice, under two spellings of
\* its path, once linked and once not: two files seen, one key
C18_Witness ==
    /\ job = "sonarr" /\ pc = "done"
    /\ total_files = 2 /\ Cardinality(seen_files) = 1
    /\ resolved_episodes = 1 /\ unresolved_files = 1

\* C19 (as claimed): in the committed database every plex_files and
\* sonarr_files row with a non-null episode_id has the series_id of the
\* episode row it links to.
C19_SeriesLinkConsistent ==
    /\ \A f \in disk.plex_files : \A e \in disk.plex_episodes :
         (f.episode_id # NULL /\ e.id = f.episode_id) => f.series_id = e.series_id
    /\ \A f \in disk.sonarr_files : \A e \in disk.sonarr_episodes :
         (f.episode_id # NULL /\ e.id = f.episode_id) => f.series_id = e.series_id

\* C20: separation of effects in the filesystem job.  A step of
\* scan_directory leaves every existing files row as it is; update_directories
\* inserts no row and changes nothing but the removed_date of rows that were
\* active, which it sets to its timestamp.  So a run without --update leaves
\* every row it found as it was, and a run without --dirname leaves the set
\* of rows as it was.
C20_SeparationStep ==
    job = "fs" =>
        /\ (pc \in {"scan_start", "scan"} /\ pc' # "aborted") =>
              db.files \subseteq db'.files
        /\ (pc = "update" /\ pc' = "done") =>
              /\ { r.id : r \in db'.files } = { r.id : r \in db.files }
              /\ \A r \in db.files : \A r2 \in db'.files :
                    r2.id = r.id =>
                       \/ r2 = r
                       \/ r.removed_date = NULL /\ r2 = [r EXCEPT !.removed_date = now']
        /\ (pc' = "done" /\ ~args'.update) => before'.files \subseteq disk'.files
        /\ (pc' = "done" /\ args'.dirname = <<>>) =>
              { r.id : r \in disk'.files } = { r.id : r \in before'.files }

C20_SeparationOfEffects == [][C20_SeparationStep]_vars

\* a run with --update and without --dirname has completed: it marked a row
\* removed and recorded nothing for a file that is on disk, below a
\* registered directory, and has no row
C20_Witness ==
    /\ job = "fs" /\ pc = "done" /\ args.update /\ args.dirname = <<>>
    /\ \E r \in disk.files : r.removed_date = now
    /\ \E k \in existing : \A r \in disk.files : <<r.filename, r.filepath>> # k

====
